---------------------------- MODULE Spec2Model ----------------------------
(***************************************************************************)
(* A model of the vex-v5-serial framing core:                              *)
(*   - Connection::packet_handshake (src/src/connection/mod.rs), the       *)
(*     bounded-retry send/receive loop, stepped at its await points;       *)
(*   - the wire primitives and the device-bound envelope of                *)
(*     src/src/packets/mod.rs (VarU16, the fixed-length strings,           *)
(*     DeviceBoundPacket), as pure operators applied by actions.           *)
(* Bytes are integers 0..255, byte vectors are sequences of bytes (a       *)
(* packet payload, which may exceed 65535 bytes, is held as its length and *)
(* its fill byte), and a Rust Result is a record [tag, val]; a panic is    *)
(* the tag "Panic".                                                        *)
(***************************************************************************)
EXTENDS Integers, Sequences, FiniteSets, TLC

VARIABLES
    \* ---- one call of packet_handshake ----
    pc,          \* position of the call: "for", "send", "recv", "done"
    timeout,     \* argument `timeout`
    retries,     \* argument `retries`
    packet,      \* argument `packet`
    i,           \* number of iterations the range 0..retries has yielded
    last_error,  \* local `last_error`
    result,      \* value returned by the call, NoResult while it runs
    trace,       \* history: the send_packet/receive_packet calls made, in order
    \* ---- VarU16 ----
    vu_val,      \* argument of VarU16::new
    vu_self,     \* outcome of VarU16::new(vu_val)
    vu_enc,      \* outcome of vu_self.encode()
    vu_prev,     \* history: an earlier value and the bytes it encoded to
    \* ---- fixed-length strings ----
    s_kind,      \* "Terminated" or "Unterminated"
    s_LEN,       \* const generic LEN
    s_in,        \* argument of new: the bytes of the string
    s_self,      \* outcome of new
    s_enc,       \* outcome of encode
    \* ---- DeviceBoundPacket ----
    p_ID,        \* const generic ID
    p_payload,   \* the payload, a Vec<u8> or ()
    p_self,      \* the packet built by DeviceBoundPacket::new
    p_enc        \* outcome of encode

hsVars  == <<pc, timeout, retries, packet, i, last_error, result, trace>>
vuVars  == <<vu_val, vu_self, vu_enc, vu_prev>>
strVars == <<s_kind, s_LEN, s_in, s_self, s_enc>>
pktVars == <<p_ID, p_payload, p_self, p_enc>>
vars    == <<hsVars, vuVars, strVars, pktVars>>

(***************************************************************************)
(* Bounds of the model.                                                    *)
(***************************************************************************)
MaxRetries == 4
MaxStrLen  == 3
MaxLEN     == 3
MaxDelta   == 3

(***************************************************************************)
(* Results.                                                                *)
(***************************************************************************)
Ok(v)    == [tag |-> "Ok", val |-> v]
Err(e)   == [tag |-> "Err", val |-> e]
Panic    == [tag |-> "Panic", val |-> "panic"]
NoResult == [tag |-> "None", val |-> "none"]

(***************************************************************************)
(* Connection: the transport and packet_handshake.                         *)
(***************************************************************************)
\* Variants of ConnectionError a transport's send can fail with.
SendErrors == {"IoError", "NoWriteOnWireless", "NotConnected"}

\* Variants of ConnectionError receive_packet fails with.
RecvErrors == {"Timeout", "DecodeError", "Nack", "IoError"}

\* Values of the response type D.
Decoded == {"d1", "d2"}

\* The packets handed to the handshake: a payload and whether it encodes.
Packets == [payload : {<<>>, <<1>>}, encodes : BOOLEAN]

Timeouts == {100, 1000}

\* send_packet(packet): serialises, then transmits. A packet that does not
\* encode fails with the encode error before anything is written.
send_packet(p) ==
    IF ~p.encodes THEN {Err("EncodeError")}
    ELSE {Ok("unit")} \cup {Err(e) : e \in SendErrors}

\* receive_packet::<D>(timeout): any value of Result<D, ConnectionError>.
receive_packet(t) ==
    {Ok(d) : d \in Decoded} \cup {Err(e) : e \in RecvErrors}

\* let mut last_error = ConnectionError::Timeout;
InitialLastError == "Timeout"

\* Mutant of RangeYields: the inclusive range 0..=retries.
RangeYieldsInclusive(n, r) == n <= r

\* for _ in 0..retries: the range yields while fewer than `retries` were taken.
RangeYields(n, r) == n < r

\* Mutant of RecordError: the error is logged but never stored.
RecordErrorKeepsFirst(last, e) == last

\* Err(e) => { warn!(..); last_error = e; }
RecordError(last, e) == e

\* packet.clone()
Clone(p) == p

Event(op, attempt, arg, out) ==
    [op |-> op, attempt |-> attempt, arg |-> arg, out |-> out]

\* The loop head; after the loop, error!(..) and Err(last_error).
ForNext ==
    /\ pc = "for"
    /\ IF RangeYields(i, retries)
       THEN /\ i' = i + 1
            /\ pc' = "send"
            /\ UNCHANGED result
       ELSE /\ pc' = "done"
            /\ result' = Err(last_error)
            /\ UNCHANGED i
    /\ UNCHANGED <<timeout, retries, packet, last_error, trace>>
    /\ UNCHANGED <<vuVars, strVars, pktVars>>

\* Mutant of SendPacket: a failed send is recorded and retried like a failed receive.
SendPacketRetried ==
    /\ pc = "send"
    /\ \E out \in send_packet(Clone(packet)) :
         /\ trace' = Append(trace, Event("send", i, Clone(packet), out))
         /\ IF out.tag = "Ok"
            THEN /\ pc' = "recv"
                 /\ UNCHANGED last_error
            ELSE /\ pc' = "for"
                 /\ last_error' = out.val
    /\ UNCHANGED <<timeout, retries, packet, i, result>>
    /\ UNCHANGED <<vuVars, strVars, pktVars>>

\* Mutant of SendPacket: the result of the send is dropped (no `?`).
SendPacketUnchecked ==
    /\ pc = "send"
    /\ \E out \in send_packet(Clone(packet)) :
         /\ trace' = Append(trace, Event("send", i, Clone(packet), out))
         /\ pc' = "recv"
    /\ UNCHANGED <<timeout, retries, packet, i, last_error, result>>
    /\ UNCHANGED <<vuVars, strVars, pktVars>>

\* self.send_packet(packet.clone()).await?
SendPacket ==
    /\ pc = "send"
    /\ \E out \in send_packet(Clone(packet)) :
         /\ trace' = Append(trace, Event("send", i, Clone(packet), out))
         /\ IF out.tag = "Ok"
            THEN /\ pc' = "recv"
                 /\ UNCHANGED result
            ELSE /\ pc' = "done"
                 /\ result' = out
    /\ UNCHANGED <<timeout, retries, packet, i, last_error>>
    /\ UNCHANGED <<vuVars, strVars, pktVars>>

\* Mutant of ReceivePacket: after a failed receive the next attempt listens
\* again without sending the packet again.
ReceivePacketNoResend ==
    /\ pc = "recv"
    /\ \E out \in receive_packet(timeout) :
         /\ trace' = Append(trace, Event("recv", i, timeout, out))
         /\ IF out.tag = "Ok"
            THEN /\ pc' = "done"
                 /\ result' = out
                 /\ UNCHANGED <<last_error, i>>
            ELSE /\ last_error' = RecordError(last_error, out.val)
                 /\ IF RangeYields(i, retries)
                    THEN pc' = "recv" /\ i' = i + 1
                    ELSE pc' = "for" /\ UNCHANGED i
                 /\ UNCHANGED result
    /\ UNCHANGED <<timeout, retries, packet>>
    /\ UNCHANGED <<vuVars, strVars, pktVars>>

\* match self.receive_packet::<D>(timeout).await { Ok(..) => return, Err(e) => .. }
ReceivePacket ==
    /\ pc = "recv"
    /\ \E out \in receive_packet(timeout) :
         /\ trace' = Append(trace, Event("recv", i, timeout, out))
         /\ IF out.tag = "Ok"
            THEN /\ pc' = "done"
                 /\ result' = out
                 /\ UNCHANGED last_error
            ELSE /\ pc' = "for"
                 /\ last_error' = RecordError(last_error, out.val)
                 /\ UNCHANGED result
    /\ UNCHANGED <<timeout, retries, packet, i>>
    /\ UNCHANGED <<vuVars, strVars, pktVars>>

HsNext ==
    \/ ForNext
    \/ SendPacket
    \/ ReceivePacket

InitHandshake ==
    /\ pc = "for"
    /\ timeout \in Timeouts
    /\ retries \in 0..MaxRetries
    /\ packet \in Packets
    /\ i = 0
    /\ last_error = InitialLastError
    /\ result = NoResult
    /\ trace = <<>>
    /\ vu_val = 0 /\ vu_self = NoResult /\ vu_enc = NoResult /\ vu_prev = NoResult
    /\ s_kind = "none" /\ s_LEN = 0 /\ s_in = <<>> /\ s_self = NoResult /\ s_enc = NoResult
    /\ p_ID = 0 /\ p_payload = <<>> /\ p_self = NoResult /\ p_enc = NoResult

SpecHandshake == InitHandshake /\ [][HsNext]_vars

\* Every send and every receive terminates, and the loop itself runs on.
FairHandshake == SpecHandshake /\ WF_vars(HsNext)

(***************************************************************************)
(* Properties of packet_handshake.                                         *)
(***************************************************************************)
SendIdx == {k \in 1..Len(trace) : trace[k].op = "send"}
RecvIdx == {k \in 1..Len(trace) : trace[k].op = "recv"}
NumSends == Cardinality(SendIdx)
NumRecvs == Cardinality(RecvIdx)
AllSendsOk == \A k \in SendIdx : trace[k].out.tag = "Ok"
\* The outcome of the receive of attempt a (a <= number of receives made).
RecvOf(a) == trace[CHOOSE k \in RecvIdx : trace[k].attempt = a].out
OkAttempts == {trace[k].attempt : k \in {j \in RecvIdx : trace[j].out.tag = "Ok"}}
Min(S) == CHOOSE x \in S : \A y \in S : x <= y

\* C1: with retries >= 1 and every send succeeding, a finished handshake whose
\* first successful receive is attempt k <= retries has made exactly k sends and
\* k receives and returns that decoded value; when no attempt succeeds it has
\* made exactly `retries` sends and receives and returns the error of attempt
\* number `retries`.
C1_RetryCountAndLastError ==
    (pc = "done" /\ retries >= 1 /\ AllSendsOk) =>
        IF OkAttempts # {}
        THEN LET k == Min(OkAttempts) IN
             /\ k <= retries
             /\ NumSends = k
             /\ NumRecvs = k
             /\ result = RecvOf(k)
             /\ result.tag = "Ok"
        ELSE /\ NumSends = retries
             /\ NumRecvs = retries
             /\ result = RecvOf(retries)
             /\ result.tag = "Err"

\* The mock of the spec: decode fails twice, the third receive succeeds, retries = 3.
C1_Witness ==
    /\ pc = "done" /\ retries = 3 /\ AllSendsOk
    /\ NumSends = 3 /\ NumRecvs = 3
    /\ RecvOf(1) = Err("DecodeError") /\ RecvOf(2) = Err("DecodeError")
    /\ result = Ok("d1")

\* C2: a handshake called with retries = 0 never calls send_packet or
\* receive_packet and returns the error Timeout.
C2_ZeroRetries ==
    retries = 0 =>
        /\ trace = <<>>
        /\ pc = "done" => result = Err("Timeout")

C2_Witness ==
    pc = "done" /\ retries = 0 /\ ~packet.encodes /\ result = Err("Timeout")

\* C3: a failed send_packet ends the handshake at once with that error: it is
\* the last call made, no receive belongs to its attempt, and the error
\* returned is the send error, not the last recorded receive error.
C3_SendFailureShortCircuits ==
    \A k \in SendIdx :
        trace[k].out.tag = "Err" =>
            /\ k = Len(trace)
            /\ pc = "done"
            /\ result = trace[k].out
            /\ \A j \in RecvIdx : trace[j].attempt # trace[k].attempt

C3_Witness ==
    /\ pc = "done" /\ retries = MaxRetries /\ Len(trace) = 3
    /\ trace[2].out = Err("Nack") /\ last_error = "Nack"
    /\ trace[3].op = "send" /\ trace[3].out = Err("IoError")
    /\ result = Err("IoError")

\* C4 as claimed: for every value of retries, a packet that fails to encode
\* gives the caller the encode error, with no receive attempted.
C4_EncodeFailureAnyRetries ==
    (pc = "done" /\ ~packet.encodes) =>
        /\ result = Err("EncodeError")
        /\ RecvIdx = {}

\* C4, amended: for every retries >= 1 and every timeout, a packet that fails to
\* encode gives the caller the encode error after exactly one send_packet call:
\* it is not retried and no receive is attempted.
C4_EncodeFailureImmediate ==
    (pc = "done" /\ ~packet.encodes /\ retries >= 1) =>
        /\ result = Err("EncodeError")
        /\ Len(trace) = 1
        /\ trace[1].op = "send"
        /\ trace[1].out = Err("EncodeError")

C4_Witness ==
    /\ pc = "done" /\ ~packet.encodes /\ retries = MaxRetries
    /\ result = Err("EncodeError") /\ Len(trace) = 1

\* The state part of C10.
HandshakeInv ==
    \* sends and receives strictly alternate, starting with a send
    /\ \A k \in 1..Len(trace) :
           trace[k].op = (IF k % 2 = 1 THEN "send" ELSE "recv")
    /\ NumRecvs <= NumSends
    /\ NumSends <= retries
    /\ NumSends - NumRecvs <= 1
    \* a receive directly follows a successful send of the same attempt
    /\ \A k \in RecvIdx :
           /\ k > 1
           /\ trace[k - 1].op = "send"
           /\ trace[k - 1].out.tag = "Ok"
           /\ trace[k - 1].attempt = trace[k].attempt
    \* every send transmits the packet the call was given
    /\ \A k \in SendIdx : trace[k].arg = packet
    \* every receive error is absorbed: while attempts remain the call goes on
    \* to send again
    /\ \A k \in RecvIdx :
           (trace[k].out.tag = "Err" /\ trace[k].attempt < retries) =>
               IF k = Len(trace)
               THEN pc \in {"for", "send"} /\ result = NoResult
               ELSE /\ trace[k + 1].op = "send"
                    /\ trace[k + 1].attempt = trace[k].attempt + 1

\* C10: throughout one handshake call sends and receives strictly alternate
\* starting with a send, receives <= sends <= retries and sends - receives <= 1,
\* a receive only follows a successful send of the same attempt, every send
\* carries the same packet, every receive error leads to a retransmission
\* while attempts remain, and the call terminates (after at most `retries`
\* sends) when each send and receive terminates.
C10_AlternationAndTermination ==
    /\ []HandshakeInv
    /\ <>(pc = "done" /\ NumSends <= retries)

\* All four receive errors absorbed in one call, each followed by a send.
C10_Witness ==
    /\ pc = "recv" /\ retries = MaxRetries /\ i = MaxRetries
    /\ RecvOf(1) = Err("Timeout") /\ RecvOf(2) = Err("DecodeError")
    /\ RecvOf(3) = Err("Nack")
    /\ NumSends = MaxRetries /\ NumRecvs = MaxRetries - 1

(***************************************************************************)
(* packets: bytes and bit operations.                                      *)
(***************************************************************************)
U16_MAX == 65535
U8_MAX  == 255

RECURSIVE Pow2(_)
Pow2(n) == IF n = 0 THEN 1 ELSE 2 * Pow2(n - 1)

\* x >> n
Shr(x, n) == x \div Pow2(n)

Bit(x, n) == Shr(x, n) % 2

\* a | b on 8 bits
RECURSIVE OrBits(_, _, _)
OrBits(a, b, n) ==
    IF n = 0 THEN 0
    ELSE (IF a % 2 = 1 \/ b % 2 = 1 THEN 1 ELSE 0)
         + 2 * OrBits(a \div 2, b \div 2, n - 1)
BitOr8(a, b) == OrBits(a, b, 8)

\* u16::to_le_bytes
to_le_bytes(x) == <<x % 256, (x \div 256) % 256>>

\* `as u16` of a usize, `as u8` of a u16
AsU16(n) == n % (U16_MAX + 1)
AsU8(n)  == n % (U8_MAX + 1)

(***************************************************************************)
(* VarU16.                                                                 *)
(***************************************************************************)
\* VarU16::new: panics above u16::MAX >> 1, else wraps the value.
VarU16_new(val) ==
    IF val > Shr(U16_MAX, 1) THEN Panic ELSE Ok(val)

\* Mutant of VarU16_encode: the one-byte form is used up to u8::MAX.
VarU16_encodeWide(self0) ==
    IF self0 > Shr(U16_MAX, 1) THEN Err("VarShortTooLarge")
    ELSE IF self0 > U8_MAX
         THEN LET val == to_le_bytes(self0)
              IN  Ok(<<BitOr8(val[1], Pow2(7)), val[2]>>)
         ELSE Ok(<<AsU8(self0)>>)

\* <VarU16 as Encode>::encode on the wrapped value self.0.
VarU16_encode(self0) ==
    IF self0 > Shr(U16_MAX, 1) THEN Err("VarShortTooLarge")
    ELSE IF self0 > Shr(U8_MAX, 1)
         THEN LET val == to_le_bytes(self0)
              IN  Ok(<<BitOr8(val[1], Pow2(7)), val[2]>>)
         ELSE Ok(<<AsU8(self0)>>)

\* The bits in which a second value differs from the first: the lowest and
\* the highest bit of each byte of a u16.
PeerBits == {0, 7, 8, 15}

FlipBit(x, n) == IF Bit(x, n) = 1 THEN x - Pow2(n) ELSE x + Pow2(n)

VarU16New ==
    /\ vu_self.tag = "None"
    /\ vu_self' = VarU16_new(vu_val)
    /\ UNCHANGED <<vu_val, vu_enc, vu_prev>>
    /\ UNCHANGED <<hsVars, strVars, pktVars>>

VarU16Encode ==
    /\ vu_self.tag = "Ok"
    /\ vu_enc.tag = "None"
    /\ vu_enc' = VarU16_encode(vu_self.val)
    /\ UNCHANGED <<vu_val, vu_self, vu_prev>>
    /\ UNCHANGED <<hsVars, strVars, pktVars>>

\* A second value, one bit away from the first, is built and encoded after
\* the first; the first and its bytes are remembered.
VarU16Another ==
    /\ vu_enc.tag = "Ok"
    /\ vu_prev.tag = "None"
    /\ \E n \in PeerBits :
         /\ vu_val' = FlipBit(vu_val, n)
         /\ vu_prev' = [tag |-> "Some", val |-> vu_val, bytes |-> vu_enc.val]
         /\ vu_self' = NoResult
         /\ vu_enc' = NoResult
    /\ UNCHANGED <<hsVars, strVars, pktVars>>

VuNext ==
    \/ VarU16New
    \/ VarU16Encode
    \/ VarU16Another

InitVarU16 ==
    /\ vu_val \in 0..U16_MAX
    /\ vu_self = NoResult /\ vu_enc = NoResult /\ vu_prev = NoResult
    /\ pc = "idle" /\ timeout = 0 /\ retries = 0
    /\ packet = [payload |-> <<>>, encodes |-> TRUE]
    /\ i = 0 /\ last_error = InitialLastError /\ result = NoResult /\ trace = <<>>
    /\ s_kind = "none" /\ s_LEN = 0 /\ s_in = <<>> /\ s_self = NoResult /\ s_enc = NoResult
    /\ p_ID = 0 /\ p_payload = <<>> /\ p_self = NoResult /\ p_enc = NoResult

SpecVarU16 == InitVarU16 /\ [][VuNext]_vars

\* C5: two distinct values in [0, 32767] never encode to the same bytes (so
\* that decoding the bytes of VarU16::new(v).encode() can reproduce v).
C5_EncodeInjective ==
    (vu_prev.tag = "Some" /\ vu_enc.tag = "Ok" /\ vu_prev.val # vu_val) =>
        vu_prev.bytes # vu_enc.val

\* C6: VarU16::new accepts exactly the values 0..32767 and aborts on
\* 32768..65535; an accepted v encodes to the single byte v when v <= 127 and
\* otherwise to two bytes, v in little-endian order with the top bit of the
\* first byte set.
C6_VarU16Boundaries ==
    /\ vu_self.tag # "None" =>
          /\ vu_val <= 32767 => (vu_self.tag = "Ok" /\ vu_self.val = vu_val)
          /\ vu_val >= 32768 => vu_self.tag = "Panic"
    /\ vu_enc.tag # "None" =>
          /\ vu_enc.tag = "Ok"
          /\ vu_val <= 127 => vu_enc.val = <<vu_val>>
          /\ vu_val >= 128 =>
                /\ Len(vu_enc.val) = 2
                /\ vu_enc.val[1] \in 128..255
                /\ vu_enc.val[1] % 128 = vu_val % 128
                /\ vu_enc.val[2] = vu_val \div 256

C6_Witness ==
    /\ vu_val = 32767 /\ vu_self.tag = "Ok" /\ vu_enc.tag = "Ok"
    /\ vu_enc.val = <<255, 127>>

(***************************************************************************)
(* TerminatedFixedLengthString<LEN> and UnterminatedFixedLengthString<LEN>. *)
(***************************************************************************)
\* The LEN of the one UnterminatedFixedLengthString that implements Encode.
UNTERMINATED_LEN == 23

\* Bytes of the strings: NUL, 'A', 'z'.
Alphabet == {0, 65, 122}

ShortStrings == UNION {[1..n -> Alphabet] : n \in 0..MaxStrLen}

\* Strings around UNTERMINATED_LEN bytes long: c, then 'B', 'C', ...
LongString(n, c) == [k \in 1..n |-> IF k = 1 THEN c ELSE 65 + (k % 26)]
LongStrings ==
    {LongString(n, c) : n \in (UNTERMINATED_LEN - MaxDelta)..(UNTERMINATED_LEN + MaxDelta),
                        c \in Alphabet}

Strings == ShortStrings \cup LongStrings
LENs == (0..MaxLEN) \cup {UNTERMINATED_LEN}

\* let mut encoded = [0u8; LEN];
ZeroArray(LEN) == [k \in 1..LEN |-> 0]

\* encoded[..string_bytes.len()].copy_from_slice(&string_bytes);
CopyPrefix(encoded, string_bytes) ==
    [k \in 1..Len(encoded) |->
        IF k <= Len(string_bytes) THEN string_bytes[k] ELSE encoded[k]]

\* Mutant of TerminatedFixedLengthString_new: a string of exactly LEN bytes is refused.
TerminatedFixedLengthString_newStrict(LEN, string) ==
    LET encoded == ZeroArray(LEN)
        string_bytes == string
    IN  IF Len(string_bytes) >= Len(encoded)
        THEN Err("StringTooLong")
        ELSE Ok(CopyPrefix(encoded, string_bytes))

\* TerminatedFixedLengthString::<LEN>::new(string)
TerminatedFixedLengthString_new(LEN, string) ==
    LET encoded == ZeroArray(LEN)
        string_bytes == string
    IN  IF Len(string_bytes) > Len(encoded)
        THEN Err("StringTooLong")
        ELSE Ok(CopyPrefix(encoded, string_bytes))

\* <TerminatedFixedLengthString<LEN> as Encode>::encode
TerminatedFixedLengthString_encode(self0) == Ok(Append(self0, 0))

\* UnterminatedFixedLengthString::<LEN>::new(string)
UnterminatedFixedLengthString_new(LEN, string) ==
    LET encoded == ZeroArray(LEN)
        string_bytes == string
    IN  IF Len(string_bytes) > Len(encoded)
        THEN Err("StringTooLong")
        ELSE Ok(CopyPrefix(encoded, string_bytes))

\* <UnterminatedFixedLengthString<23> as Encode>::encode
UnterminatedFixedLengthString_encode(self0) == Ok(self0)

TerminatedNew ==
    /\ s_kind = "Terminated"
    /\ s_self.tag = "None"
    /\ s_self' = TerminatedFixedLengthString_new(s_LEN, s_in)
    /\ UNCHANGED <<s_kind, s_LEN, s_in, s_enc>>
    /\ UNCHANGED <<hsVars, vuVars, pktVars>>

TerminatedEncode ==
    /\ s_kind = "Terminated"
    /\ s_self.tag = "Ok"
    /\ s_enc.tag = "None"
    /\ s_enc' = TerminatedFixedLengthString_encode(s_self.val)
    /\ UNCHANGED <<s_kind, s_LEN, s_in, s_self>>
    /\ UNCHANGED <<hsVars, vuVars, pktVars>>

UnterminatedNew ==
    /\ s_kind = "Unterminated"
    /\ s_self.tag = "None"
    /\ s_self' = UnterminatedFixedLengthString_new(s_LEN, s_in)
    /\ UNCHANGED <<s_kind, s_LEN, s_in, s_enc>>
    /\ UNCHANGED <<hsVars, vuVars, pktVars>>

\* Encode is implemented for LEN = 23 only.
UnterminatedEncode ==
    /\ s_kind = "Unterminated"
    /\ s_LEN = UNTERMINATED_LEN
    /\ s_self.tag = "Ok"
    /\ s_enc.tag = "None"
    /\ s_enc' = UnterminatedFixedLengthString_encode(s_self.val)
    /\ UNCHANGED <<s_kind, s_LEN, s_in, s_self>>
    /\ UNCHANGED <<hsVars, vuVars, pktVars>>

StrNext ==
    \/ TerminatedNew
    \/ TerminatedEncode
    \/ UnterminatedNew
    \/ UnterminatedEncode

InitStrings ==
    /\ s_kind \in {"Terminated", "Unterminated"}
    /\ s_LEN \in LENs
    /\ s_in \in Strings
    /\ s_self = NoResult /\ s_enc = NoResult
    /\ pc = "idle" /\ timeout = 0 /\ retries = 0
    /\ packet = [payload |-> <<>>, encodes |-> TRUE]
    /\ i = 0 /\ last_error = InitialLastError /\ result = NoResult /\ trace = <<>>
    /\ vu_val = 0 /\ vu_self = NoResult /\ vu_enc = NoResult /\ vu_prev = NoResult
    /\ p_ID = 0 /\ p_payload = <<>> /\ p_self = NoResult /\ p_enc = NoResult

SpecStrings == InitStrings /\ [][StrNext]_vars

\* The bytes of s, then zeros up to n bytes in all.
PaddedTo(bytes, s, n) ==
    /\ Len(bytes) = n
    /\ \A k \in 1..Len(s) : bytes[k] = s[k]
    /\ \A k \in (Len(s) + 1)..n : bytes[k] = 0

\* C9: new succeeds iff the string has at most LEN bytes and otherwise fails
\* with StringTooLong; the terminated variant encodes to LEN + 1 bytes (the
\* bytes of s, zeros up to LEN, one more zero) and the unterminated 23-byte
\* variant to 23 bytes (the bytes of s, then zeros).
C9_FixedLengthStrings ==
    /\ s_self.tag # "None" =>
          /\ s_self.tag = "Ok" <=> Len(s_in) <= s_LEN
          /\ s_self.tag # "Ok" => (s_self.tag = "Err" /\ s_self.val = "StringTooLong")
    /\ s_enc.tag # "None" =>
          /\ s_enc.tag = "Ok"
          /\ s_kind = "Terminated" => PaddedTo(s_enc.val, s_in, s_LEN + 1)
          /\ s_kind = "Unterminated" => (s_LEN = 23 /\ PaddedTo(s_enc.val, s_in, 23))

\* A two-byte string in a Terminated<3>: one byte of padding and the terminator.
C9_Witness ==
    /\ s_kind = "Terminated" /\ s_LEN = 3 /\ s_in = <<65, 122>>
    /\ s_enc.tag = "Ok" /\ s_enc.val = <<65, 122, 0, 0>>

(***************************************************************************)
(* DeviceBoundPacket<P, ID>.                                               *)
(***************************************************************************)
\* DeviceBoundPacket::HEADER = [0xC9, 0x36, 0xB8, 0x47]
HEADER == <<201, 54, 184, 71>>

\* The command identifiers of the packets built.
IDs == {86, 88}

\* Payload lengths: at zero, around the one-byte limit of VarU16, around its
\* two-byte limit and around the limit of a u16.
PayloadLens ==
    {base + d : base \in {0, 126, Shr(U16_MAX, 1) - 1, U16_MAX - 1}, d \in 0..MaxDelta}

\* A byte vector of `len` bytes, each equal to `fill`.
Run(len, fill) == [len |-> len, fill |-> fill]

\* The payloads: () and the vectors vec![fill; len].
UnitPayload == [kind |-> "Unit", bytes |-> Run(0, 0)]
VecPayload(len, fill) == [kind |-> "Vec", bytes |-> Run(len, fill)]
Payloads ==
    {UnitPayload} \cup
    {VecPayload(len, fill) : len \in PayloadLens \ {0}, fill \in {0, 170}} \cup
    {VecPayload(len, 0) : len \in PayloadLens \cap {0}}

\* <() as Encode>::encode is Vec::new(), <Vec<u8> as Encode>::encode is self.clone()
Payload_encode(payload) ==
    IF payload.kind = "Unit" THEN Ok(Run(0, 0)) ELSE Ok(payload.bytes)

\* DeviceBoundPacket::new(payload)
DeviceBoundPacket_new(payload) == [header |-> HEADER, payload |-> payload]

\* <DeviceBoundPacket<P, ID> as Encode>::encode. The encoded vector is held as
\* its leading bytes (header, ID, size) and the run of payload bytes after them.
DeviceBoundPacket_encode(self, ID) ==
    LET encoded == self.header \o <<ID>>
        measured == Payload_encode(self.payload)
    IN  IF measured.tag = "Err" THEN measured
        ELSE LET size == VarU16_new(AsU16(measured.val.len))
             IN  IF size.tag = "Panic" THEN Panic
                 ELSE LET size_bytes == VarU16_encode(size.val)
                          emitted == Payload_encode(self.payload)
                      IN  IF size_bytes.tag = "Err" THEN size_bytes
                          ELSE IF emitted.tag = "Err" THEN emitted
                          ELSE Ok([lead |-> encoded \o size_bytes.val,
                                   rest |-> emitted.val])

PacketNew ==
    /\ p_self.tag = "None"
    /\ p_self' = Ok(DeviceBoundPacket_new(p_payload))
    /\ UNCHANGED <<p_ID, p_payload, p_enc>>
    /\ UNCHANGED <<hsVars, vuVars, strVars>>

PacketEncode ==
    /\ p_self.tag = "Ok"
    /\ p_enc.tag = "None"
    /\ p_enc' = DeviceBoundPacket_encode(p_self.val, p_ID)
    /\ UNCHANGED <<p_ID, p_payload, p_self>>
    /\ UNCHANGED <<hsVars, vuVars, strVars>>

PktNext ==
    \/ PacketNew
    \/ PacketEncode

InitPacket ==
    /\ p_ID \in IDs
    /\ p_payload \in Payloads
    /\ p_self = NoResult /\ p_enc = NoResult
    /\ pc = "idle" /\ timeout = 0 /\ retries = 0
    /\ packet = [payload |-> <<>>, encodes |-> TRUE]
    /\ i = 0 /\ last_error = InitialLastError /\ result = NoResult /\ trace = <<>>
    /\ vu_val = 0 /\ vu_self = NoResult /\ vu_enc = NoResult /\ vu_prev = NoResult
    /\ s_kind = "none" /\ s_LEN = 0 /\ s_in = <<>> /\ s_self = NoResult /\ s_enc = NoResult

SpecPacket == InitPacket /\ [][PktNext]_vars

\* The number of payload bytes of the packet being encoded.
PayloadLen == Payload_encode(p_payload).val.len

\* C7: a payload that encodes to k bytes gives an envelope of exactly
\* 4 + 1 + size_of(VarU16(k)) + k bytes: the magic C9 36 B8 47, the ID byte,
\* the length prefix (one byte up to 127, else two) and the k payload bytes
\* unchanged, the prefix being the VarU16 encoding of k.
C7_EnvelopeLayout ==
    (p_enc.tag # "None" /\ Payload_encode(p_payload).tag = "Ok") =>
        LET k == PayloadLen
            n == IF k <= 127 THEN 1 ELSE 2
        IN  /\ p_enc.tag = "Ok"
            /\ Len(p_enc.val.lead) + p_enc.val.rest.len = 4 + 1 + n + k
            /\ SubSeq(p_enc.val.lead, 1, 4) = <<201, 54, 184, 71>>
            /\ p_enc.val.lead[5] = p_ID
            /\ Len(p_enc.val.lead) = 5 + n
            /\ k <= 32767 => SubSeq(p_enc.val.lead, 6, 5 + n) = VarU16_encode(k).val
            /\ p_enc.val.rest = Payload_encode(p_payload).val

\* C8: encoding a packet whose payload encodes to more than 32767 bytes
\* returns an EncodeError: it neither aborts nor succeeds with a length
\* prefix computed from the length modulo 2^16.
C8_OversizePayloadIsAnError ==
    (p_enc.tag # "None" /\ PayloadLen > 32767) => p_enc.tag = "Err"

=============================================================================
